---- MODULE Spec2Model ----
(***************************************************************************)
(* A model of epydoc/util.py: wordwrap, py_src_filename, run_subprocess    *)
(* and TerminalController.  Python strings are sequences of one-character  *)
(* strings.                                                                *)
(***************************************************************************)
EXTENDS Integers, Sequences, FiniteSets, TLC

VARIABLES
    str, indent, right, startindex, splitchars,   \* wordwrap's arguments
    chunks, chunknum, result, charindex,          \* wordwrap's locals
    wpc, ret,                                     \* wordwrap's position and return value
    filename, fs, spc, srcres,                    \* py_src_filename: argument, the disk, position, outcome
    cmd, data, child, rpc, runres,                \* run_subprocess: arguments, the child, position, outcome
    term, self, tpc, template, rendered           \* TerminalController: the terminal, the object, render

wvars == <<str, indent, right, startindex, splitchars, chunks, chunknum,
           result, charindex, wpc, ret>>

svars == <<filename, fs, spc, srcres>>

rvars == <<cmd, data, child, rpc, runres>>

tvars == <<term, self, tpc, template, rendered>>

vars == <<wvars, svars, rvars, tvars>>

----------------------------------------------------------------------------
(* Bounds of the model *)

MaxLen == 3
MaxIndent == 2
MaxRight == 3
MaxStart == 1
MaxPathLen == 5
MaxExit == 2
MaxParts == 2

----------------------------------------------------------------------------
(* Strings *)

NL == "\n"
SP == " "
TAB == "\t"
CR == "\r"

\* The characters input strings are drawn from.
Chars == {"a", "/", SP, NL, TAB, CR}

\* The characters of the alphabet that str.rstrip() and str.isspace() treat as whitespace.
Whitespace == {SP, NL, TAB, CR}

Max(a, b) == IF a >= b THEN a ELSE b

\* The strings over an alphabet of length at most n.
RECURSIVE StringsUpTo(_, _)
StringsUpTo(alphabet, n) ==
    IF n = 0 THEN {<<>>}
    ELSE LET shorter == StringsUpTo(alphabet, n - 1)
         IN  shorter \cup {Append(s, c) : s \in {t \in shorter : Len(t) = n - 1},
                                          c \in alphabet}

\* ' ' * n  (the empty string when n <= 0)
Spaces(n) == [i \in 1..Max(n, 0) |-> SP]

\* ''.join(list)
RECURSIVE Join(_)
Join(list) == IF list = <<>> THEN <<>> ELSE Head(list) \o Join(Tail(list))

\* str.rstrip(): drop the trailing run of whitespace
RECURSIVE rstrip(_)
rstrip(s) ==
    IF s = <<>> THEN <<>>
    ELSE IF s[Len(s)] \in Whitespace THEN rstrip(SubSeq(s, 1, Len(s) - 1))
    ELSE s

TabSize == 8

\* str.expandtabs(): a tab becomes the spaces up to the next multiple of 8;
\* the column restarts after a newline or a carriage return.
RECURSIVE ExpandFrom(_, _, _)
ExpandFrom(s, i, col) ==
    IF i > Len(s) THEN <<>>
    ELSE IF s[i] = TAB
         THEN LET incr == TabSize - (col % TabSize)
              IN  Spaces(incr) \o ExpandFrom(s, i + 1, col + incr)
         ELSE <<s[i]>> \o ExpandFrom(s, i + 1, IF s[i] \in {NL, CR} THEN 0 ELSE col + 1)

expandtabs(s) == ExpandFrom(s, 1, 0)

----------------------------------------------------------------------------
(* re.split(r'( +|\n)', s)  and  re.split(r'( +|\n|[^ \n%s]*[%s])', s) *)

Class(sp) == {sp[i] : i \in 1..Len(sp)}

\* Length of the maximal run of spaces of s that starts at p.
RECURSIVE SpaceRun(_, _)
SpaceRun(s, p) == IF p <= Len(s) /\ s[p] = SP THEN 1 + SpaceRun(s, p + 1) ELSE 0

\* Length of the maximal run of characters outside {space, newline} \cup sp that starts at p.
RECURSIVE PlainRun(_, _, _)
PlainRun(s, p, sp) ==
    IF p <= Len(s) /\ s[p] \notin ({SP, NL} \cup Class(sp))
    THEN 1 + PlainRun(s, p + 1, sp) ELSE 0

\* Length of the separator the pattern matches at position p of s, 0 when it
\* matches none there.  The alternatives are tried in the pattern's order.
MatchLen(s, p, sp) ==
    IF s[p] = SP THEN SpaceRun(s, p)
    ELSE IF s[p] = NL THEN 1
    ELSE IF sp = <<>> THEN 0
    ELSE LET n == PlainRun(s, p, sp)
         IN  IF p + n <= Len(s) /\ s[p + n] \in Class(sp) THEN n + 1 ELSE 0

\* The pieces re.split returns from position `start` on: the text before each
\* separator and the separator itself (the pattern's group), then the rest.
RECURSIVE SplitFrom(_, _, _, _)
SplitFrom(s, sp, start, p) ==
    IF p > Len(s) THEN <<SubSeq(s, start, Len(s))>>
    ELSE LET n == MatchLen(s, p, sp)
         IN  IF n = 0 THEN SplitFrom(s, sp, start, p + 1)
             ELSE <<SubSeq(s, start, p - 1), SubSeq(s, p, p + n - 1)>>
                  \o SplitFrom(s, sp, p + n, p + n)

Split(s, sp) == SplitFrom(expandtabs(s), sp, 1, 1)

----------------------------------------------------------------------------
(* wordwrap *)

\* result = [' '*(indent-startindex)]
InitialResult(i, st) == <<Spaces(i - st)>>

\* charindex = max(indent, startindex)
InitialCharindex(i, st) == Max(i, st)

\* The test with the chunk's length forgotten.
BreakCondNoLen(ci, chunk, r) ==
    (ci > r /\ ci > 0) \/ chunk = <<NL>>

\* (charindex+len(chunk) > right and charindex > 0) or chunk == '\n'
BreakCond(ci, chunk, r) ==
    (ci + Len(chunk) > r /\ ci > 0) \/ chunk = <<NL>>

\* The test inverted: the chunks that are not whitespace are the ones swallowed.
KeptInverted(chunk) == ~(chunk = <<>> \/ chunk[1] \notin {NL, SP})

\* The test left out: the chunk at a break is always re-emitted.
KeptAlways(chunk) == TRUE

\* chunk[:1] not in ('\n', ' ')
Kept(chunk) == chunk = <<>> \/ chunk[1] \notin {NL, SP}

\* One iteration of the loop: the new (result, charindex).
LoopBody(res, ci, chunk, i, r) ==
    IF BreakCond(ci, chunk, r)
    THEN IF Kept(chunk)
         THEN [result |-> res \o <<<<NL>> \o Spaces(i), chunk>>, charindex |-> i + Len(chunk)]
         ELSE [result |-> Append(res, <<NL>> \o Spaces(i)), charindex |-> i]
    ELSE [result |-> Append(res, chunk), charindex |-> ci + Len(chunk)]

\* The return value without the rstrip().
FinishNoStrip(res) == Join(res) \o <<NL>>

\* return ''.join(result).rstrip()+'\n'
Finish(res) == rstrip(Join(res)) \o <<NL>>

RECURSIVE LoopFrom(_, _, _, _, _, _)
LoopFrom(cs, k, res, ci, i, r) ==
    IF k > Len(cs) THEN res
    ELSE LET n == LoopBody(res, ci, cs[k], i, r)
         IN  LoopFrom(cs, k + 1, n.result, n.charindex, i, r)

\* The whole function, as one value.
wordwrap(s, i, r, st, sp) ==
    Finish(LoopFrom(Split(s, sp), 1, InitialResult(i, st), InitialCharindex(i, st), i, r))

SplitcharsChoices == {<<>>, <<"/">>}

\* No call of wordwrap is in progress.
WrapIdle ==
    /\ str = <<>> /\ indent = 0 /\ right = 0 /\ startindex = 0 /\ splitchars = <<>>
    /\ chunks = <<>> /\ chunknum = 0 /\ result = <<>> /\ charindex = 0
    /\ wpc = "idle" /\ ret = <<>>

\* A call of wordwrap: the arguments, and the locals as they are on entering the loop.
WrapCall ==
    /\ str \in StringsUpTo(Chars, MaxLen)
    /\ indent \in 0..MaxIndent
    /\ right \in 1..MaxRight
    /\ startindex \in 0..MaxStart
    /\ splitchars \in SplitcharsChoices
    /\ chunks = Split(str, splitchars)
    /\ chunknum = 1
    /\ result = InitialResult(indent, startindex)
    /\ charindex = InitialCharindex(indent, startindex)
    /\ wpc = "loop"
    /\ ret = <<>>

\* A loop iteration that takes the first branch (a line break is emitted).
WrapBreak ==
    /\ wpc = "loop"
    /\ chunknum <= Len(chunks)
    /\ BreakCond(charindex, chunks[chunknum], right)
    /\ LET n == LoopBody(result, charindex, chunks[chunknum], indent, right)
       IN  /\ result' = n.result
           /\ charindex' = n.charindex
    /\ chunknum' = chunknum + 1
    /\ UNCHANGED <<str, indent, right, startindex, splitchars, chunks, wpc, ret>>
    /\ UNCHANGED <<svars, rvars, tvars>>

\* A loop iteration that takes the else branch (the chunk is appended).
WrapAppend ==
    /\ wpc = "loop"
    /\ chunknum <= Len(chunks)
    /\ ~BreakCond(charindex, chunks[chunknum], right)
    /\ LET n == LoopBody(result, charindex, chunks[chunknum], indent, right)
       IN  /\ result' = n.result
           /\ charindex' = n.charindex
    /\ chunknum' = chunknum + 1
    /\ UNCHANGED <<str, indent, right, startindex, splitchars, chunks, wpc, ret>>
    /\ UNCHANGED <<svars, rvars, tvars>>

\* The loop is over: the function returns.
WrapReturn ==
    /\ wpc = "loop"
    /\ chunknum > Len(chunks)
    /\ ret' = Finish(result)
    /\ wpc' = "done"
    /\ UNCHANGED <<str, indent, right, startindex, splitchars, chunks, chunknum,
                   result, charindex>>
    /\ UNCHANGED <<svars, rvars, tvars>>

WrapNext == WrapBreak \/ WrapAppend \/ WrapReturn

----------------------------------------------------------------------------
(* py_src_filename *)

PY_SRC_EXTENSIONS == << <<".", "p", "y">>, <<".", "p", "y", "w">> >>

\* The characters file names are drawn from.
PathChars == {"m", ".", "/", "p", "y", "w"}

\* What a path can be on the disk.
Kinds == {"absent", "file", "dir"}

\* p.rfind(c), as a position from 1 (0 when c does not occur in p[1..n]).
RECURSIVE rfind(_, _, _)
rfind(p, c, n) == IF n = 0 THEN 0 ELSE IF p[n] = c THEN n ELSE rfind(p, c, n - 1)

\* os.path.splitext: the extension starts at the last dot of the last
\* component, unless only dots precede it in that component.
RECURSIVE SplitextScan(_, _, _)
SplitextScan(p, filenameIndex, dotIndex) ==
    IF filenameIndex >= dotIndex THEN <<p, <<>>>>
    ELSE IF p[filenameIndex] # "."
         THEN <<SubSeq(p, 1, dotIndex - 1), SubSeq(p, dotIndex, Len(p))>>
         ELSE SplitextScan(p, filenameIndex + 1, dotIndex)

splitext(p) ==
    LET sepIndex == rfind(p, "/", Len(p))
        dotIndex == rfind(p, ".", Len(p))
    IN  IF dotIndex > sepIndex THEN SplitextScan(p, sepIndex + 1, dotIndex)
        ELSE <<p, <<>>>>

\* x in list
InList(x, list) == \E k \in 1..Len(list) : list[k] = x

\* os.path.exists in place of os.path.isfile: a directory counts too.
exists(disk, path) == path \in DOMAIN disk /\ disk[path] # "absent"

\* os.path.isfile(path)
isfile(disk, path) == path \in DOMAIN disk /\ disk[path] = "file"

\* for ext in PY_SRC_EXTENSIONS: ... else: raise ValueError
RECURSIVE FirstSource(_, _, _, _)
FirstSource(basefile, k, name, disk) ==
    IF k > Len(PY_SRC_EXTENSIONS)
    THEN [kind |-> "raise", type |-> "ValueError", value |-> name]
    ELSE IF isfile(disk, basefile \o PY_SRC_EXTENSIONS[k])
         THEN [kind |-> "return", value |-> basefile \o PY_SRC_EXTENSIONS[k]]
         ELSE FirstSource(basefile, k + 1, name, disk)

py_src_filename(name, disk) ==
    LET basefile == splitext(name)[1]
        extension == splitext(name)[2]
    IN  IF InList(extension, PY_SRC_EXTENSIONS)
        THEN [kind |-> "return", value |-> name]
        ELSE FirstSource(basefile, 1, name, disk)

\* The paths py_src_filename can ask the disk about or return.
Candidates(name) ==
    {splitext(name)[1] \o PY_SRC_EXTENSIONS[k] : k \in 1..Len(PY_SRC_EXTENSIONS)}

SrcIdle ==
    /\ filename = <<>> /\ fs = <<>> /\ spc = "idle" /\ srcres = [kind |-> "none"]

\* A call of py_src_filename, with the disk in some state.
SrcCall ==
    /\ filename \in StringsUpTo(PathChars, MaxPathLen)
    /\ fs \in [Candidates(filename) -> Kinds]
    /\ spc = "call"
    /\ srcres = [kind |-> "none"]

PySrcFilename ==
    /\ spc = "call"
    /\ srcres' = py_src_filename(filename, fs)
    /\ spc' = "done"
    /\ UNCHANGED <<filename, fs>>
    /\ UNCHANGED <<wvars, rvars, tvars>>

----------------------------------------------------------------------------
(* RunSubprocessError and run_subprocess *)

\* The commands: a list of words, or one string that run_subprocess splits.
Cmds ==
    { [type |-> "list", value |-> << <<"f">> >>],
      [type |-> "list", value |-> << <<"l">>, <<"-", "a">> >>],
      [type |-> "str", value |-> <<"l", " ", "-", "a">>],
      [type |-> "str", value |-> <<" ", "f", "\t", " ">>] }

\* What a child writes to its stdout or stderr.
Outputs == {<<>>, <<"x">>}

\* How the child can be run: with the subprocess module, and where that
\* module cannot be imported with popen2.Popen3 or with os.popen3.
Platforms == {"subprocess", "popen2", "popen3"}

\* cmd.split(): the words between runs of whitespace
RECURSIVE SplitWords(_, _)
SplitWords(s, word) ==
    IF s = <<>> THEN IF word = <<>> THEN <<>> ELSE <<word>>
    ELSE IF Head(s) \in Whitespace
         THEN (IF word = <<>> THEN <<>> ELSE <<word>>) \o SplitWords(Tail(s), <<>>)
         ELSE SplitWords(Tail(s), Append(word, Head(s)))

\* if isinstance(cmd, six.string_types): cmd = cmd.split()
Argv(c) == IF c.type = "str" THEN SplitWords(c.value, <<>>) ELSE c.value

\* RunSubprocessError.__init__: the message names cmd[0]; out and err are kept.
RunSubprocessError(c, out, err) ==
    [kind |-> "raise", type |-> "RunSubprocessError",
     args |-> <<c[1] \o <<" ", "f", "a", "i", "l", "e", "d">>>>,
     out |-> out, err |-> err]

\* An exception that run_subprocess does not make itself and lets through.
Propagated(type) == [kind |-> "raise", type |-> type]

Returned(out, err) == [kind |-> "return", out |-> out, err |-> err]

\* if data: to_child.write(data)  fails
WriteFails(d, ch) == d # <<>> /\ ~ch.writes

\* The test with every exit status taken for success.
ExitOkAlways(returncode) == returncode >= 0

\* pipe.returncode == 0,  pipe.wait() == 0
ExitOk(returncode) == returncode = 0

run_subprocess(c, d, ch) ==
    LET argv == Argv(c)
    IN  IF ~ch.starts THEN Propagated("OSError")
        ELSE IF ch.platform = "subprocess"
        THEN IF ExitOk(ch.exitval) THEN Returned(ch.out, ch.err)
             ELSE RunSubprocessError(argv, ch.out, ch.err)
        ELSE IF ch.platform = "popen2"
        THEN IF WriteFails(d, ch) THEN Propagated("IOError")
             ELSE IF ExitOk(ch.exitval) THEN Returned(ch.out, ch.err)
             ELSE RunSubprocessError(argv, ch.out, ch.err)
        ELSE IF WriteFails(d, ch) THEN Propagated("OSError")
             ELSE IF ch.err = <<>> THEN Returned(ch.out, ch.err)
             ELSE RunSubprocessError(argv, ch.out, ch.err)

RunIdle ==
    /\ cmd = [type |-> "list", value |-> <<>>] /\ data = <<>>
    /\ child = [platform |-> "subprocess"]
    /\ rpc = "idle" /\ runres = [kind |-> "none"]

\* A call of run_subprocess, and what the child is going to do.
RunCall ==
    /\ cmd \in Cmds
    /\ data \in {<<>>, <<"d">>}
    /\ child \in [platform : Platforms, starts : BOOLEAN, writes : BOOLEAN,
                  exitval : 0..MaxExit, out : Outputs, err : Outputs]
    /\ rpc = "call"
    /\ runres = [kind |-> "none"]

RunSubprocess ==
    /\ rpc = "call"
    /\ runres' = run_subprocess(cmd, data, child)
    /\ rpc' = "done"
    /\ UNCHANGED <<cmd, data, child>>
    /\ UNCHANGED <<wvars, svars, tvars>>

----------------------------------------------------------------------------
(* TerminalController *)

\* The names of the capability fields, as the characters a template spells them with.
BOL == <<"B", "O", "L">>
UP == <<"U", "P">>
DOWN == <<"D", "O", "W", "N">>
LEFT == <<"L", "E", "F", "T">>
RIGHT == <<"R", "I", "G", "H", "T">>
CLEAR_EOL == <<"C", "L", "E", "A", "R", "_", "E", "O", "L">>
CLEAR_LINE == <<"C", "L", "E", "A", "R", "_", "L", "I", "N", "E">>
BOLD == <<"B", "O", "L", "D">>
NORMAL == <<"N", "O", "R", "M", "A", "L">>
UNDERLINE == <<"U", "N", "D", "E", "R", "L", "I", "N", "E">>
REVERSE == <<"R", "E", "V", "E", "R", "S", "E">>
BLACK == <<"B", "L", "A", "C", "K">>
BLUE == <<"B", "L", "U", "E">>
GREEN == <<"G", "R", "E", "E", "N">>
CYAN == <<"C", "Y", "A", "N">>
RED == <<"R", "E", "D">>
MAGENTA == <<"M", "A", "G", "E", "N", "T", "A">>
YELLOW == <<"Y", "E", "L", "L", "O", "W">>
WHITE == <<"W", "H", "I", "T", "E">>

\* Names a template can also use: an attribute that is no string, and no attribute.
COLS == <<"C", "O", "L", "S">>
FOO == <<"F", "O", "O">>

CapFields == {BOL, UP, DOWN, LEFT, RIGHT, CLEAR_EOL, CLEAR_LINE, BOLD, NORMAL,
              UNDERLINE, REVERSE, BLACK, BLUE, GREEN, CYAN, RED, MAGENTA, YELLOW, WHITE}

\* Attributes of a controller that hold no string: COLS, and the like.
NonStringAttrs == {COLS}

DefaultCOLS == 75

\* The class attributes: every capability empty, COLS = 75.
ClassDefaults == [caps |-> [n \in CapFields |-> <<>>], cols |-> DefaultCOLS]

_STRING_CAPABILITIES ==
    << <<BOL, "cr">>, <<UP, "cuu1">>, <<DOWN, "cud1">>, <<LEFT, "cub1">>,
       <<RIGHT, "cuf1">>, <<REVERSE, "rev">>, <<CLEAR_EOL, "el">>, <<BOLD, "bold">>,
       <<UNDERLINE, "smul">>, <<NORMAL, "sgr0">> >>

_COLORS == <<BLACK, BLUE, GREEN, CYAN, RED, MAGENTA, YELLOW, WHITE>>

_ANSICOLORS == <<BLACK, RED, GREEN, YELLOW, BLUE, MAGENTA, CYAN, WHITE>>

CapNames == {"cr", "cuu1", "cud1", "cub1", "cuf1", "rev", "el", "bold", "smul", "sgr0",
             "setf", "setaf"}

ESC == "ESC"

\* What the terminal database holds for a capability it has.
RawCap(cap_name) ==
    CASE cap_name = "cr" -> <<CR>>
      [] cap_name = "cuu1" -> <<ESC, "[", "A">>
      [] cap_name = "cud1" -> <<NL>>
      [] cap_name = "cub1" -> <<"BS">>
      [] cap_name = "cuf1" -> <<ESC, "[", "C">>
      [] cap_name = "rev" -> <<ESC, "[", "7", "m">>
      [] cap_name = "el" -> <<ESC, "[", "K", "$", "<", "3", ">">>
      [] cap_name = "bold" -> <<ESC, "[", "1", "m">>
      [] cap_name = "smul" -> <<ESC, "[", "4", "m">>
      [] cap_name = "sgr0" -> <<ESC, "[", "m", "$", "<", "2", ">", "/">>
      [] cap_name = "setf" -> <<ESC, "[", "3">>
      [] cap_name = "setaf" -> <<ESC, "[", "9">>

\* The terminal databases: cr, el, bold, setf and setaf each present or
\* not, the other capabilities all present or all absent.  A capability the
\* terminal lacks reads as None, which _tigetstr turns into ''.
Grouped(cap_name) == IF cap_name \in {"cr", "el", "bold", "setf", "setaf"} THEN cap_name ELSE "rest"

TermDbs ==
    { [c \in CapNames |-> IF Grouped(c) \in present THEN RawCap(c) ELSE <<>>] :
        present \in SUBSET {"cr", "el", "bold", "setf", "setaf", "rest"} }

Digits == {"0", "1", "2", "3", "4", "5", "6", "7", "8", "9"}

RECURSIVE DigitRun(_, _)
DigitRun(s, p) == IF p <= Len(s) /\ s[p] \in Digits THEN 1 + DigitRun(s, p + 1) ELSE 0

\* re.sub(r'\$<\d+>[/*]?', '', cap): the delays are cut out
RECURSIVE StripDelays(_, _)
StripDelays(s, p) ==
    IF p > Len(s) THEN <<>>
    ELSE LET n == DigitRun(s, p + 2)
             isDelay == /\ s[p] = "$" /\ p + 1 <= Len(s) /\ s[p + 1] = "<"
                        /\ n >= 1 /\ p + 2 + n <= Len(s) /\ s[p + 2 + n] = ">"
             after == p + 3 + n
         IN  IF isDelay
             THEN StripDelays(s, IF after <= Len(s) /\ s[after] \in {"/", "*"}
                                 THEN after + 1 ELSE after)
             ELSE <<s[p]>> \o StripDelays(s, p + 1)

\* TerminalController._tigetstr
_tigetstr(db, cap_name) == StripDelays(db[cap_name], 1)

\* TerminalController._tparm: the string with its parameter filled in.
_tparm(s, i) == s \o <<CHOOSE d \in Digits : d = ToString(i)>> \o <<"m">>

\* for capability in self._STRING_CAPABILITIES: setattr(self, attrib, ...)
RECURSIVE SetStringCaps(_, _, _)
SetStringCaps(caps, db, k) ==
    IF k > Len(_STRING_CAPABILITIES) THEN caps
    ELSE SetStringCaps([caps EXCEPT ![_STRING_CAPABILITIES[k][1]] =
                            _tigetstr(db, _STRING_CAPABILITIES[k][2])], db, k + 1)

\* for i, color in zip(range(len(colors)), colors): setattr(self, color, ...)
RECURSIVE SetColors(_, _, _, _)
SetColors(caps, colors, set_fg, k) ==
    IF k > Len(colors) THEN caps
    ELSE SetColors([caps EXCEPT ![colors[k]] = _tparm(set_fg, k - 1)], colors, set_fg, k + 1)

\* The probing of __init__, once curses.setupterm() has succeeded.
Probe(obj, t) ==
    LET c1 == SetStringCaps(obj.caps, t.db, 1)
        c2 == IF c1[BOL] # <<>> /\ c1[CLEAR_EOL] # <<>>
              THEN [c1 EXCEPT ![CLEAR_LINE] = c1[BOL] \o c1[CLEAR_EOL]] ELSE c1
        set_fg == _tigetstr(t.db, "setf")
        c3 == IF set_fg # <<>> THEN SetColors(c2, _COLORS, set_fg, 1) ELSE c2
        set_fg_ansi == _tigetstr(t.db, "setaf")
        c4 == IF set_fg_ansi # <<>> THEN SetColors(c3, _ANSICOLORS, set_fg_ansi, 1) ELSE c3
    IN  [caps |-> c4, cols |-> t.cols]

\* try: import curses / except: fake enough for a simple progress bar
ImportCurses(obj, t) ==
    IF t.curses THEN obj
    ELSE [obj EXCEPT !.caps[BOL] = <<CR>>,
                     !.caps[CLEAR_LINE] = <<CR>> \o Spaces(obj.cols) \o <<CR>>]

\* try: curses.setupterm() succeeds.  Without the module the name curses is
\* unbound and the call raises NameError, which the bare except catches too.
SetuptermOk(t) == t.curses /\ t.setupterm

\* The gate with the isatty test forgotten.
GoesOnToProbeAnyStream(t) == ~t.force

\* if not term_stream.isatty(): return / if self.FORCE_SIMPLE_TERM: return
GoesOnToProbe(t) == t.isatty /\ ~t.force

\* TerminalController.__init__
TerminalController(t) ==
    IF ~GoesOnToProbe(t) THEN ClassDefaults
    ELSE LET obj == ImportCurses(ClassDefaults, t)
         IN  IF ~SetuptermOk(t) THEN obj ELSE Probe(obj, t)

WordChars == {"A", "B", "C", "D", "E", "F", "G", "H", "I", "J", "K", "L", "M", "N", "O",
              "P", "Q", "R", "S", "T", "U", "V", "W", "X", "Y", "Z", "_", "x"} \cup Digits

RECURSIVE WordRun(_, _)
WordRun(s, p) == IF p <= Len(s) /\ s[p] \in WordChars THEN 1 + WordRun(s, p + 1) ELSE 0

\* The matches of r'\$\$|\${\w+}' in the template, left to right, and the
\* characters between them.
RECURSIVE Pieces(_, _)
Pieces(t, p) ==
    IF p > Len(t) THEN <<>>
    ELSE IF t[p] = "$" /\ p + 1 <= Len(t) /\ t[p + 1] = "$"
    THEN <<[match |-> TRUE, text |-> <<"$", "$">>]>> \o Pieces(t, p + 2)
    ELSE LET n == WordRun(t, p + 2)
         IN  IF /\ t[p] = "$" /\ p + 1 <= Len(t) /\ t[p + 1] = "{"
                /\ n >= 1 /\ p + 2 + n <= Len(t) /\ t[p + 2 + n] = "}"
             THEN <<[match |-> TRUE, text |-> SubSeq(t, p, p + 2 + n)]>>
                  \o Pieces(t, p + 3 + n)
             ELSE <<[match |-> FALSE, text |-> <<t[p]>>]>> \o Pieces(t, p + 1)

\* getattr(self, name)
getattr(obj, name) ==
    IF name \in CapFields THEN [kind |-> "str", value |-> obj.caps[name]]
    ELSE IF name \in NonStringAttrs THEN [kind |-> "nonstr", value |-> <<>>]
    ELSE [kind |-> "AttributeError", value |-> <<>>]

\* TerminalController._render_sub
_render_sub(obj, s) ==
    IF s = <<"$", "$">> THEN [kind |-> "str", value |-> s]
    ELSE getattr(obj, SubSeq(s, 3, Len(s) - 1))

\* TerminalController.render: re.sub calls _render_sub on every match, so a
\* missing attribute raises at once; a replacement that is no string makes
\* the joining of the result fail.
render(obj, t) ==
    LET ps == Pieces(t, 1)
        subs == [k \in 1..Len(ps) |->
                    IF ps[k].match THEN _render_sub(obj, ps[k].text)
                    ELSE [kind |-> "str", value |-> ps[k].text]]
    IN  IF \E k \in 1..Len(ps) : subs[k].kind = "AttributeError"
        THEN [kind |-> "raise", type |-> "AttributeError"]
        ELSE IF \E k \in 1..Len(ps) : subs[k].kind = "nonstr"
        THEN [kind |-> "raise", type |-> "TypeError"]
        ELSE [kind |-> "return", value |-> Join([k \in 1..Len(ps) |-> subs[k].value])]

\* The terminals a controller can be made on.
Terminals ==
    [isatty : BOOLEAN, force : BOOLEAN, curses : BOOLEAN, setupterm : BOOLEAN,
     cols : {80}, db : TermDbs]

\* The parts templates are put together from.
Parts ==
    { <<"$", "$">>, <<"$">>, <<"x">>, <<"}">>,
      <<"$", "{">> \o BOLD \o <<"}">>, <<"$", "{">> \o BOL \o <<"}">>,
      <<"$", "{">> \o FOO \o <<"}">>, <<"$", "{">> \o COLS \o <<"}">> }

RECURSIVE TemplatesUpTo(_)
TemplatesUpTo(n) ==
    IF n = 0 THEN {<<>>}
    ELSE LET shorter == TemplatesUpTo(n - 1)
         IN  shorter \cup {t \o part : t \in shorter, part \in Parts}

\* No controller has been made yet.
TermNew ==
    /\ term = [isatty |-> FALSE]
    /\ self = ClassDefaults
    /\ tpc = "new"
    /\ template = <<>>
    /\ rendered = [kind |-> "none"]

\* TerminalController(term_stream) on some terminal.
Construct ==
    /\ tpc = "new"
    /\ \E t \in Terminals :
          /\ term' = t
          /\ self' = TerminalController(t)
    /\ tpc' = "ready"
    /\ UNCHANGED <<template, rendered>>
    /\ UNCHANGED <<wvars, svars, rvars>>

\* controller.render(template)
Render ==
    /\ tpc = "ready"
    /\ \E t \in TemplatesUpTo(MaxParts) :
          /\ template' = t
          /\ rendered' = render(self, t)
    /\ tpc' = "rendered"
    /\ UNCHANGED <<term, self>>
    /\ UNCHANGED <<wvars, svars, rvars>>

----------------------------------------------------------------------------
(* Specifications *)

WrapInit == WrapCall /\ SrcIdle /\ RunIdle /\ TermNew

SpecWrap == WrapInit /\ [][WrapNext]_vars

SrcInit == SrcCall /\ WrapIdle /\ RunIdle /\ TermNew

SrcNext == PySrcFilename

SpecSrc == SrcInit /\ [][SrcNext]_vars

RunInit == RunCall /\ WrapIdle /\ SrcIdle /\ TermNew

RunNext == RunSubprocess

SpecRun == RunInit /\ [][RunNext]_vars

TermInit == TermNew /\ WrapIdle /\ SrcIdle /\ RunIdle

TermNext == Construct \/ Render

SpecTerm == TermInit /\ [][TermNext]_vars

----------------------------------------------------------------------------
(* Properties of wordwrap *)

\* The lines of a text that ends with a newline: the pieces between newlines.
RECURSIVE LinesFrom(_, _, _)
LinesFrom(s, start, p) ==
    IF p > Len(s) THEN IF start > Len(s) THEN <<>> ELSE <<SubSeq(s, start, Len(s))>>
    ELSE IF s[p] = NL THEN <<SubSeq(s, start, p - 1)>> \o LinesFrom(s, p + 1, p + 1)
    ELSE LinesFrom(s, start, p + 1)

Lines(s) == LinesFrom(s, 1, 1)

\* s with the characters of the set `drop` deleted.
Without(s, drop) == SelectSeq(s, LAMBDA c : c \notin drop)

\* A line that is only its indentation and one chunk that does not fit
\* (the last line has lost its trailing whitespace).
SingleLongChunk(line, last) ==
    \E j \in 1..Len(chunks) :
        LET whole == Spaces(indent) \o chunks[j]
        IN  /\ Len(whole) > right
            /\ \/ line = whole
               \/ last /\ line = rstrip(whole)

C2_OneTrailingNewline ==
    wpc = "done" =>
        /\ Len(ret) >= 1 /\ ret[Len(ret)] = NL
        /\ Len(ret) > 1 => ret[Len(ret) - 1] \notin Whitespace
        /\ str = <<>> => ret = <<NL>>

\* C2's case: the joined result ended in whitespace, which the return dropped.
C2_Witness ==
    /\ wpc = "done"
    /\ Len(ret) > 1
    /\ Join(result) # rstrip(Join(result))

\* C3 as stated: for an input without newlines and startindex 0, wrapping the
\* output again with the same indent and right gives the output back.
C3_Idempotent ==
    (wpc = "done" /\ startindex = 0 /\ splitchars = <<>> /\ NL \notin Class(str)) =>
        wordwrap(ret, indent, right, 0, <<>>) = ret

\* C3 amended: the same, for indent 0 and an input that (tabs expanded) does
\* not begin with a run of spaces longer than right.
C3_IdempotentNoIndent ==
    (/\ wpc = "done" /\ startindex = 0 /\ splitchars = <<>> /\ NL \notin Class(str)
     /\ indent = 0 /\ SpaceRun(expandtabs(str), 1) <= right) =>
        wordwrap(ret, indent, right, 0, <<>>) = ret

\* C3's case: an input of one line that wordwrap broke into several.
C3_Witness ==
    /\ wpc = "done" /\ startindex = 0 /\ splitchars = <<>> /\ NL \notin Class(str)
    /\ indent = 0 /\ SpaceRun(expandtabs(str), 1) <= right
    /\ Len(Lines(ret)) >= 2
    /\ wordwrap(ret, indent, right, 0, <<>>) = ret

\* C9: a loop step emits a line break only for a newline chunk, or when the
\* chunk does not fit and the column is strictly past indent.
C9_BreakOnlyPastIndent ==
    [][WrapBreak =>
          \/ chunks[chunknum] = <<NL>>
          \/ (charindex + Len(chunks[chunknum]) > right /\ charindex > indent)]_vars

\* C10 as stated: the output and the tab-expanded input are the same once
\* all spaces and newlines are deleted.
C10_ContentKept ==
    wpc = "done" => Without(ret, {SP, NL}) = Without(expandtabs(str), {SP, NL})

\* C10 amended: the output and the tab-expanded input are the same once all
\* whitespace characters are deleted.
C10_NonWhitespaceKept ==
    wpc = "done" => Without(ret, Whitespace) = Without(expandtabs(str), Whitespace)

\* C10's case: a break swallowed a whitespace chunk between two pieces of content.
C10_Witness ==
    /\ wpc = "done"
    /\ NL \notin Class(str)
    /\ Len(Lines(ret)) >= 2
    /\ Len(Join(result)) < Len(InitialResult(indent, startindex)[1]) + Len(expandtabs(str))
                           + (Len(Lines(Join(result) \o <<NL>>)) - 1) * (1 + indent)
    /\ Without(ret, Whitespace) # <<>>

----------------------------------------------------------------------------
(* Properties of py_src_filename *)

Basefile == splitext(filename)[1]
Extension == splitext(filename)[2]
PyPath == Basefile \o <<".", "p", "y">>
PywPath == Basefile \o <<".", "p", "y", "w">>
OnDiskAsFile(path) == path \in DOMAIN fs /\ fs[path] = "file"

\* C8 as stated: py_src_filename returns only a path that is a file on the
\* disk, .py before .pyw, and raises the not-found error whenever no
\* candidate is a file.
C8_ReturnsExistingSource ==
    spc = "done" =>
        /\ srcres.kind = "return" =>
              /\ OnDiskAsFile(srcres.value)
              /\ srcres.value = PywPath => ~OnDiskAsFile(PyPath)
        /\ (~OnDiskAsFile(PyPath) /\ ~OnDiskAsFile(PywPath)) =>
              (srcres.kind = "raise" /\ srcres.type = "ValueError")

\* C8 amended: a name that already ends in .py or .pyw is returned as it
\* is, whether or not it exists; any other name gives the first of
\* base.py, base.pyw that is a file on the disk, and ValueError when neither is.
C8_SourceOrUnchanged ==
    spc = "done" =>
        /\ Extension \in {<<".", "p", "y">>, <<".", "p", "y", "w">>} =>
              srcres = [kind |-> "return", value |-> filename]
        /\ Extension \notin {<<".", "p", "y">>, <<".", "p", "y", "w">>} =>
              /\ srcres.kind = "return" =>
                    /\ srcres.value \in {PyPath, PywPath}
                    /\ OnDiskAsFile(srcres.value)
                    /\ srcres.value = PywPath => ~OnDiskAsFile(PyPath)
              /\ srcres.kind = "raise" =>
                    /\ srcres.type = "ValueError"
                    /\ ~OnDiskAsFile(PyPath) /\ ~OnDiskAsFile(PywPath)
              /\ srcres.kind \in {"return", "raise"}

\* C8's case: the name has another extension, base.py is missing or a
\* directory, and base.pyw, a file, is what comes back.
C8_Witness ==
    /\ spc = "done"
    /\ Extension # <<>> /\ Extension \notin {<<".", "p", "y">>, <<".", "p", "y", "w">>}
    /\ fs[PyPath] = "dir" /\ fs[PywPath] = "file"
    /\ srcres = [kind |-> "return", value |-> PywPath]

----------------------------------------------------------------------------
(* Properties of run_subprocess *)

Failed == Argv(cmd)[1] \o <<" ", "f", "a", "i", "l", "e", "d">>

\* C4 as stated: run_subprocess returns (stdout, stderr) only when the child
\* exits with status 0; when the child exits with another status or cannot
\* be started it raises RunSubprocessError, and the error carries the
\* command, the captured stdout and the captured stderr.
C4_TypedErrorOnEveryFailure ==
    rpc = "done" =>
        /\ runres.kind = "return" =>
              /\ child.starts /\ child.exitval = 0
              /\ runres.out = child.out /\ runres.err = child.err
        /\ (~child.starts \/ child.exitval # 0) =>
              /\ runres.kind = "raise" /\ runres.type = "RunSubprocessError"
              /\ "cmd" \in DOMAIN runres /\ runres.cmd = Argv(cmd)
        /\ (child.starts /\ child.exitval # 0) =>
              runres.out = child.out /\ runres.err = child.err

\* The child was started and its input was written.
Ran == child.starts /\ (child.platform = "subprocess" \/ data = <<>> \/ child.writes)

\* What the code takes for the child's failure: its exit status, and on the
\* os.popen3 path, where there is none, anything written to stderr.
ChildFailed == IF child.platform = "popen3" THEN child.err # <<>> ELSE child.exitval # 0

\* C4 amended: run_subprocess returns (stdout, stderr) exactly when the child
\* ran and did not fail; when it ran and failed the error is a
\* RunSubprocessError that carries stdout and stderr and, of the command,
\* only its first word in the message; when the child cannot be started or
\* its input cannot be written, an OSError or IOError that is no
\* RunSubprocessError and carries no output gets through.
C4_ErrorByOutcome ==
    rpc = "done" =>
        /\ runres.kind = "return" <=> (Ran /\ ~ChildFailed)
        /\ runres.kind = "return" => (runres.out = child.out /\ runres.err = child.err)
        /\ (Ran /\ ChildFailed) =>
              /\ runres.kind = "raise" /\ runres.type = "RunSubprocessError"
              /\ runres.out = child.out /\ runres.err = child.err
              /\ runres.args = <<Failed>>
              /\ DOMAIN runres = {"kind", "type", "args", "out", "err"}
        /\ ~Ran =>
              /\ runres.kind = "raise" /\ runres.type \in {"OSError", "IOError"}
              /\ DOMAIN runres = {"kind", "type"}

\* C4's case: a child run with subprocess exits with a status other than 0,
\* having written to stdout only, and the typed error holds what it wrote.
C4_Witness ==
    /\ rpc = "done"
    /\ child.platform = "subprocess" /\ child.starts /\ child.exitval # 0
    /\ child.out # <<>> /\ child.err = <<>>
    /\ runres.kind = "raise" /\ runres.type = "RunSubprocessError"
    /\ runres.out = child.out /\ runres.err = <<>>

----------------------------------------------------------------------------
(* Properties of TerminalController *)

AllEmpty == \A n \in CapFields : self.caps[n] = <<>>

\* C5 as stated: when the stream is no terminal, or the curses module is
\* unavailable, or the terminal setup fails, every capability field of the
\* constructed controller is the empty string.
C5_AllEmptyUnlessProbed ==
    (tpc # "new" /\ (~term.isatty \/ ~term.curses \/ ~term.setupterm)) => AllEmpty

\* C5 amended: when the stream is no terminal, or FORCE_SIMPLE_TERM is set,
\* or curses is there and the terminal setup fails, every capability field
\* is empty; on a terminal without the curses module every field is empty
\* but BOL, a carriage return, and CLEAR_LINE, a carriage return, 75 spaces
\* and a carriage return.  COLS stays 75 in all these cases.
C5_EmptyOrFaked ==
    tpc # "new" =>
        /\ (~term.isatty \/ term.force \/ (term.curses /\ ~term.setupterm)) =>
              (AllEmpty /\ self.cols = 75)
        /\ (term.isatty /\ ~term.force /\ ~term.curses) =>
              /\ self.caps[BOL] = <<CR>>
              /\ Len(self.caps[CLEAR_LINE]) = 77
              /\ self.caps[CLEAR_LINE][1] = CR /\ self.caps[CLEAR_LINE][77] = CR
              /\ \A k \in 2..76 : self.caps[CLEAR_LINE][k] = SP
              /\ \A n \in CapFields \ {BOL, CLEAR_LINE} : self.caps[n] = <<>>
              /\ self.cols = 75

\* C5's case: a controller made on a stream that is no terminal, although
\* curses and a full terminal database are there, has nothing.
C5_Witness ==
    /\ tpc = "ready"
    /\ ~term.isatty /\ ~term.force /\ term.curses /\ term.setupterm
    /\ \A c \in CapNames : term.db[c] # <<>>
    /\ AllEmpty

\* What the claims take a template to render to: each match replaced by
\* what `sub` gives for it.
Expected(sub(_)) ==
    LET ps == Pieces(template, 1)
    IN  Join([k \in 1..Len(ps) |-> IF ps[k].match THEN sub(ps[k].text) ELSE ps[k].text])

NameOf(text) == SubSeq(text, 3, Len(text) - 1)

HasMatch(texts) == \E k \in 1..Len(Pieces(template, 1)) :
                      Pieces(template, 1)[k].match /\ Pieces(template, 1)[k].text \in texts

OnlyMatches(texts) == \A k \in 1..Len(Pieces(template, 1)) :
                         Pieces(template, 1)[k].match => Pieces(template, 1)[k].text \in texts

Names == {Pieces(template, 1)[k].text : k \in 1..Len(Pieces(template, 1))} \ {<<"$", "$">>}

\* C6: render replaces each ${NAME} by the stored capability string when
\* NAME is a capability and by the empty string when it is not, and never
\* fails.  (Stated for the templates without $$.)
C6_UnknownNameRendersEmpty ==
    (tpc = "rendered" /\ ~HasMatch({<<"$", "$">>})) =>
        rendered = [kind |-> "return",
                    value |-> Expected(LAMBDA text : IF NameOf(text) \in CapFields
                                                     THEN self.caps[NameOf(text)] ELSE <<>>)]

\* C7: render replaces each $$ by one $.  (Stated for the templates without ${NAME}.)
C7_DollarDollarIsDollar ==
    (tpc = "rendered" /\ OnlyMatches({<<"$", "$">>})) =>
        rendered = [kind |-> "return", value |-> Expected(LAMBDA text : <<"$">>)]

====
